---- MODULE Spec2Model ----
(***************************************************************************)
(* State-machine model of eco_guardian's UnifiedForecaster                 *)
(* (src/eco_guardian/models/time_series_model.py): one forecaster          *)
(* instance, the artifact file it is saved to and loaded from, and the     *)
(* caller that invokes its methods one at a time.                          *)
(*                                                                         *)
(* Numbers are exact rationals <<numerator, denominator>>.  A scaled       *)
(* covariate z = (x - mean)/scale is kept as the rational sign(z)*z^2,      *)
(* which is in one-to-one correspondence with z.                           *)
(***************************************************************************)
EXTENDS Integers, Sequences, FiniteSets, TLC

\* ---------------------------------------------------------------- bounds
MaxRows == 2        \* raw training frames have 0..MaxRows rows
MaxHorizon == 2     \* largest forecast horizon requested

\* ------------------------------------------------------ exact arithmetic
Abs(n) == IF n < 0 THEN -n ELSE n

RECURSIVE GCD(_, _)
GCD(a, b) == IF b = 0 THEN a ELSE GCD(b, a % b)

Frac(n, d) ==
    LET g == GCD(Abs(n), Abs(d))
        s == IF d < 0 THEN -1 ELSE 1
    IN  <<(s * n) \div g, (s * d) \div g>>

FInt(n) == <<n, 1>>
FAdd(a, b) == Frac(a[1] * b[2] + b[1] * a[2], a[2] * b[2])
FSub(a, b) == Frac(a[1] * b[2] - b[1] * a[2], a[2] * b[2])
FMul(a, b) == Frac(a[1] * b[1], a[2] * b[2])
FDiv(a, b) == Frac(a[1] * b[2], a[2] * b[1])
FLess(a, b) == a[1] * b[2] < b[1] * a[2]
FLeq(a, b) == a[1] * b[2] <= b[1] * a[2]

\* A function over 1..n as a sequence value.
List(f) == f \o <<>>

RECURSIVE FSum(_)
FSum(s) == IF s = <<>> THEN FInt(0) ELSE FAdd(Head(s), FSum(Tail(s)))

\* ------------------------------------------------------------- constants
\* self.feature_columns and self.geo_columns as set by __init__
FeatureColumns == <<"area_fazenda_ha", "area_floresta_ha", "prop_floresta", "estado_code">>
GeoColumns == <<"Estado", "bioma">>

SeqToSet(s) == {s[i] : i \in 1..Len(s)}

\* Region names are modelled by the integers 1..3 in their alphabetical
\* order; calendar years by integers; biome names by their strings.
Regions == {1, 2, 3}

\* pandas sorts group keys; biome names compare by alphabetical rank.
BiomaRank(b) ==
    CASE b = "Amazônia" -> 1
      [] b = "Caatinga" -> 2
      [] b = "Cerrado" -> 3
      [] b = "Deserto" -> 4
      [] b = "Mata Atlântica" -> 5
      [] b = "Pampa" -> 6
      [] b = "Pantanal" -> 7

\* ------------------------------------------------------------ exceptions
\* The outcome of a call or of a step of it: ok, or the exception raised
\* (its Python type and the raise site that produced it).
Ok == [ok |-> TRUE, exc |-> "None", step |-> "none"]
Raise(exc, step) == [ok |-> FALSE, exc |-> exc, step |-> step]

\* ------------------------------------------------- sklearn LabelEncoder
NoEncoder == [kind |-> "None", classes_ |-> {}]
LabelEncoder(names) == [kind |-> "LabelEncoder", classes_ |-> names]

\* LabelEncoder.transform of one name: its index in the sorted classes_.
EncoderCode(enc, name) == Cardinality({c \in enc.classes_ : c < name})

\* ---------------------------------- ColumnTransformer(StandardScaler)
UnfittedPreprocessor ==
    [kind |-> "ColumnTransformer", fitted |-> FALSE, mean_ |-> <<>>, var_ |-> <<>>]

\* The attributes an object answers hasattr() for.  For a ColumnTransformer the
\* fitted statistics mean_/var_/scale_ live on the inner StandardScaler
\* (named_transformers_['num']), not on the ColumnTransformer itself.
ObjectAttrs(obj) ==
    CASE obj.kind = "None" -> {}
      [] obj.kind = "LabelEncoder" -> {"fit", "transform", "inverse_transform", "classes_"}
      [] obj.kind = "ColumnTransformer" ->
            {"transformers", "remainder", "fit", "transform", "fit_transform",
             "get_feature_names_out"}
            \cup (IF obj.fitted
                   THEN {"transformers_", "named_transformers_", "n_features_in_",
                         "output_indices_"}
                   ELSE {})

hasattr(obj, name) == name \in ObjectAttrs(obj)

Column(X, j) == List([i \in 1..Len(X) |-> X[i][j]])

ColumnMean(col) == FDiv(FSum(col), FInt(Len(col)))

ColumnVar(col) ==
    LET m == ColumnMean(col)
        sq == List([i \in 1..Len(col) |-> FMul(FSub(col[i], m), FSub(col[i], m))])
    IN  FDiv(FSum(sq), FInt(Len(col)))

\* StandardScaler.fit on the rows X (each a tuple of four rationals):
\* per-column mean and population variance.
StandardScalerFit(X) ==
    [kind |-> "ColumnTransformer", fitted |-> TRUE,
     mean_ |-> List([j \in 1..Len(FeatureColumns) |-> ColumnMean(Column(X, j))]),
     var_ |-> List([j \in 1..Len(FeatureColumns) |-> ColumnVar(Column(X, j))])]

\* StandardScaler.transform of one value of column j: (x - mean)/scale with
\* scale = sqrt(var), a zero scale replaced by 1; kept as sign(z)*z^2.
ScaleValue(p, j, x) ==
    LET d == FSub(x, p.mean_[j])
        v == IF p.var_[j][1] = 0 THEN FInt(1) ELSE p.var_[j]
        z2 == FDiv(FMul(d, d), v)
    IN  IF d[1] < 0 THEN <<-z2[1], z2[2]>> ELSE z2

StandardScalerTransform(p, X) ==
    List([i \in 1..Len(X) |->
            List([j \in 1..Len(FeatureColumns) |-> ScaleValue(p, j, X[i][j])])])

\* ------------------------------------------------------- preprocess_data
RequiredCols == {"ds", "y", "Estado", "area_floresta_ha", "area_fazenda_ha", "bioma"}

\* df['y'].replace([inf, -inf], nan).fillna(0): the rate as an integer.
CleanRate(y) == IF y.kind = "num" THEN y.v ELSE 0

GroupKey(r) == <<r.Estado, r.ds, BiomaRank(r.bioma)>>

KeyLeq(a, b) ==
    \/ a[1] < b[1]
    \/ a[1] = b[1] /\ a[2] < b[2]
    \/ a[1] = b[1] /\ a[2] = b[2] /\ a[3] <= b[3]

RECURSIVE SortKeys(_)
SortKeys(S) ==
    IF S = {} THEN <<>>
    ELSE LET m == CHOOSE x \in S : \A y \in S : KeyLeq(x, y)
         IN  <<m>> \o SortKeys(S \ {m})

RECURSIVE SumOver(_, _, _)
SumOver(rows, key, col) ==
    IF rows = <<>> THEN 0
    ELSE (IF GroupKey(Head(rows)) = key THEN Head(rows)[col] ELSE 0)
         + SumOver(Tail(rows), key, col)

FirstIndex(rows, key) ==
    CHOOSE i \in 1..Len(rows) :
        /\ GroupKey(rows[i]) = key
        /\ \A j \in 1..(i - 1) : GroupKey(rows[j]) # key

\* Mutant of GroupRows: the rate of a key is the first finite rate among its
\* rows.
GroupRows_FirstFiniteRate(rows) ==
    LET keys == SortKeys({GroupKey(rows[i]) : i \in 1..Len(rows)})
    IN  List([k \in 1..Len(keys) |->
            LET r == rows[FirstIndex(rows, keys[k])]
                finite == {i \in 1..Len(rows) :
                              GroupKey(rows[i]) = keys[k] /\ rows[i].y.kind = "num"}
            IN  [Estado |-> r.Estado, ds |-> r.ds, bioma |-> r.bioma,
                 area_fazenda_ha |-> SumOver(rows, keys[k], "area_fazenda_ha"),
                 area_floresta_ha |-> SumOver(rows, keys[k], "area_floresta_ha"),
                 y |-> IF finite = {} THEN 0
                       ELSE rows[CHOOSE i \in finite : \A j \in finite : i <= j].y.v]])

\* df.groupby(['Estado','ds','bioma']).agg(sum, sum, first).reset_index():
\* one row per key, in sorted key order.
GroupRows(rows) ==
    LET keys == SortKeys({GroupKey(rows[i]) : i \in 1..Len(rows)})
    IN  List([k \in 1..Len(keys) |->
            LET r == rows[FirstIndex(rows, keys[k])]
            IN  [Estado |-> r.Estado, ds |-> r.ds, bioma |-> r.bioma,
                 area_fazenda_ha |-> SumOver(rows, keys[k], "area_fazenda_ha"),
                 area_floresta_ha |-> SumOver(rows, keys[k], "area_floresta_ha"),
                 y |-> CleanRate(r.y)]])

TotalArea(g) == g.area_fazenda_ha + g.area_floresta_ha

\* np.where(total > 0, floresta / total, 0.0)
PropFloresta(g) ==
    IF TotalArea(g) > 0 THEN Frac(g.area_floresta_ha, TotalArea(g)) ELSE FInt(0)

\* df_grouped[self.feature_columns] once prop_floresta and estado_code exist
FeatureMatrix(enc, grouped) ==
    List([i \in 1..Len(grouped) |->
        <<FInt(grouped[i].area_fazenda_ha), FInt(grouped[i].area_floresta_ha),
          PropFloresta(grouped[i]), FInt(EncoderCode(enc, grouped[i].Estado))>>])

ProcessedRows(grouped, Z) ==
    List([i \in 1..Len(grouped) |->
        [ds |-> grouped[i].ds, y |-> grouped[i].y, Estado |-> grouped[i].Estado,
         bioma |-> grouped[i].bioma,
         area_fazenda_ha |-> Z[i][1], area_floresta_ha |-> Z[i][2],
         prop_floresta |-> Z[i][3], estado_code |-> Z[i][4]]])

PreFail(self, exc, step) ==
    Raise(exc, step) @@ [out |-> <<>>, preprocessor |-> self.preprocessor]

\* Mutant of PreprocessData: a region outside classes_ is encoded like any
\* other name instead of being rejected.
PreprocessData_EncodesUnseen(self, df) ==
    IF "y" \notin df.columns THEN PreFail(self, "ValueError", "y_missing")
    ELSE IF RequiredCols \ df.columns # {}
    THEN PreFail(self, "ValueError", "missing_columns")
    ELSE LET grouped == GroupRows(df.rows)
             enc == self.encoder_estados
         IN
         IF \E i \in 1..Len(grouped) : TotalArea(grouped[i]) <= 0
         THEN PreFail(self, "AssertionError", "invalid_area")
         ELSE IF enc.kind = "None"
         THEN PreFail(self, "RuntimeError", "encoder_none")
         ELSE LET X == FeatureMatrix(enc, grouped)
              IN
              IF hasattr(self.preprocessor, "mean_")
              THEN IF ~self.preprocessor.fitted
                   THEN PreFail(self, "RuntimeError", "scaling")
                   ELSE Ok @@ [out |-> ProcessedRows(grouped,
                                          StandardScalerTransform(self.preprocessor, X)),
                               preprocessor |-> self.preprocessor]
              ELSE IF Len(X) = 0
                   THEN PreFail(self, "RuntimeError", "scaling")
                   ELSE LET fit == StandardScalerFit(X)
                        IN  Ok @@ [out |-> ProcessedRows(grouped,
                                               StandardScalerTransform(fit, X)),
                                   preprocessor |-> fit]

\* The value of preprocess_data(self, df): its outcome, the frame returned
\* and the preprocessor the instance holds afterwards.
PreprocessData(self, df) ==
    IF "y" \notin df.columns THEN PreFail(self, "ValueError", "y_missing")
    ELSE IF RequiredCols \ df.columns # {}
    THEN PreFail(self, "ValueError", "missing_columns")
    ELSE LET grouped == GroupRows(df.rows)
             enc == self.encoder_estados
         IN
         IF \E i \in 1..Len(grouped) : TotalArea(grouped[i]) <= 0
         THEN PreFail(self, "AssertionError", "invalid_area")
         ELSE IF enc.kind = "None"
         THEN PreFail(self, "RuntimeError", "encoder_none")
         ELSE IF \E i \in 1..Len(grouped) : grouped[i].Estado \notin enc.classes_
         THEN PreFail(self, "ValueError", "unknown_region")
         ELSE LET X == FeatureMatrix(enc, grouped)
              IN
              IF hasattr(self.preprocessor, "mean_")
              THEN IF ~self.preprocessor.fitted
                   THEN PreFail(self, "RuntimeError", "scaling")
                   ELSE Ok @@ [out |-> ProcessedRows(grouped,
                                          StandardScalerTransform(self.preprocessor, X)),
                               preprocessor |-> self.preprocessor]
              ELSE IF Len(X) = 0
                   THEN PreFail(self, "RuntimeError", "scaling")
                   ELSE LET fit == StandardScalerFit(X)
                        IN  Ok @@ [out |-> ProcessedRows(grouped,
                                               StandardScalerTransform(fit, X)),
                                   preprocessor |-> fit]

\* ----------------------------------------------------------------- Prophet
NoParams == [fitted |-> FALSE, base |-> FInt(0), step |-> FInt(0)]

\* Prophet() ... .add_seasonality(...): no history, no regressors, no params.
NewProphet ==
    [kind |-> "Prophet", history |-> FALSE, extra_regressors |-> {}, params |-> NoParams]

\* What a completed fit may estimate: the yearly conversion rate the model
\* predicts is base + (k-1)*step for the k-th year after the history.
ModelParams ==
    [fitted : {TRUE},
     base : {Frac(-1, 2), Frac(1, 3), Frac(3, 2)},
     step : {FInt(0), Frac(1, 2)}]

\* The outcomes of the sampler behind Prophet.fit: it fails, or it returns
\* one of the parameter sets.
StanOutcomes ==
    {[ok |-> FALSE, params |-> NoParams]} \cup {[ok |-> TRUE, params |-> q] : q \in ModelParams}

\* Prophet.add_regressor(col): refused once the model has a history.
AddRegressor(m, col) ==
    IF m.history
    THEN Raise("Exception", "add_regressor") @@ [model |-> m]
    ELSE Ok @@ [model |-> [m EXCEPT !.extra_regressors = @ \cup {col}]]

\* Mutant of AddRegressors: every feature column is registered again on each
\* call, registered already or not.
RECURSIVE AddRegressors_Unguarded(_, _)
AddRegressors_Unguarded(m, cols) ==
    IF cols = <<>> THEN Ok @@ [model |-> m]
    ELSE LET r == AddRegressor(m, Head(cols))
         IN  IF r.ok THEN AddRegressors_Unguarded(r.model, Tail(cols)) ELSE r

\* for col in feature_cols: if col not in extra_regressors: add_regressor(col)
RECURSIVE AddRegressors(_, _)
AddRegressors(m, cols) ==
    IF cols = <<>> THEN Ok @@ [model |-> m]
    ELSE IF Head(cols) \in m.extra_regressors THEN AddRegressors(m, Tail(cols))
    ELSE LET r == AddRegressor(m, Head(cols))
         IN  IF r.ok THEN AddRegressors(r.model, Tail(cols)) ELSE r

\* Mutant of ProphetFit: a failing sampler is taken for a completed fit.
ProphetFit_IgnoresSampler(m, nrows, stan) ==
    IF m.history THEN Raise("Exception", "fit_once") @@ [model |-> m]
    ELSE IF nrows < 2 THEN Raise("ValueError", "fit_rows") @@ [model |-> m]
    ELSE Ok @@ [model |-> [m EXCEPT !.history = TRUE, !.params = stan.params]]

\* Prophet.fit(df): once only; at least two rows; the history is stored
\* before the sampler runs, the parameters after it.
ProphetFit(m, nrows, stan) ==
    IF m.history THEN Raise("Exception", "fit_once") @@ [model |-> m]
    ELSE IF nrows < 2 THEN Raise("ValueError", "fit_rows") @@ [model |-> m]
    ELSE IF ~stan.ok
    THEN Raise("RuntimeError", "fit_sampler") @@ [model |-> [m EXCEPT !.history = TRUE]]
    ELSE Ok @@ [model |-> [m EXCEPT !.history = TRUE, !.params = stan.params]]

\* ------------------------------------------------------ UnifiedForecaster
\* UnifiedForecaster.__init__
NewForecaster ==
    [model |-> NewProphet,
     feature_columns |-> FeatureColumns,
     geo_columns |-> GeoColumns,
     preprocessor |-> UnfittedPreprocessor,
     is_trained |-> FALSE,
     encoder_estados |-> NoEncoder]

\* The columns of the frame preprocess_data returns (col_order).
ProcessedColumns ==
    {"ds", "y", "Estado", "bioma", "area_fazenda_ha", "area_floresta_ha",
     "prop_floresta", "estado_code"}

\* self.preprocessor.get_feature_names_out(): the transformer was fit on the
\* four feature columns only, so the passthrough remainder is empty.
FeatureNamesOut(p) ==
    IF p.fitted THEN Ok @@ [names |-> SeqToSet(FeatureColumns)]
    ELSE Raise("NotFittedError", "feature_names") @@ [names |-> {}]

\* train(), steps 1-4: everything before self.model.fit.
TrainBeforeFit(self, df) ==
    LET pp == PreprocessData(self, df)
        s1 == [self EXCEPT !.preprocessor = pp.preprocessor]
    IN
    IF ~pp.ok THEN [ok |-> FALSE, exc |-> pp.exc, step |-> pp.step, self |-> s1, nrows |-> 0]
    ELSE LET fn == FeatureNamesOut(s1.preprocessor)
         IN
         IF ~fn.ok
         THEN [ok |-> FALSE, exc |-> fn.exc, step |-> fn.step, self |-> s1, nrows |-> 0]
         ELSE IF (({"ds", "y"} \cup fn.names) \ ProcessedColumns) # {}
         THEN [ok |-> FALSE, exc |-> "ValueError", step |-> "missing_after",
               self |-> s1, nrows |-> 0]
         ELSE LET feature_cols ==
                      SelectSeq(s1.feature_columns, LAMBDA c : c \in ProcessedColumns)
                  ar == AddRegressors(s1.model, feature_cols)
                  s2 == [s1 EXCEPT !.model = ar.model]
              IN  [ok |-> ar.ok, exc |-> ar.exc, step |-> ar.step, self |-> s2,
                   nrows |-> Len(pp.out)]

\* Mutant of TrainFinish: the handler re-raises without touching is_trained.
TrainFinish_KeepsFlag(pre, stan) ==
    LET fit == IF pre.ok THEN ProphetFit(pre.self.model, pre.nrows, stan)
               ELSE [ok |-> FALSE, exc |-> pre.exc, step |-> pre.step,
                     model |-> pre.self.model]
        s3 == [pre.self EXCEPT !.model = fit.model]
    IN  IF fit.ok
        THEN [ok |-> TRUE, exc |-> "None", cause |-> "None", step |-> "none",
              self |-> [s3 EXCEPT !.is_trained = TRUE]]
        ELSE [ok |-> FALSE, exc |-> "RuntimeError", cause |-> fit.exc, step |-> fit.step,
              self |-> s3]

\* train(), step 5 and the handler: fit, then is_trained = True; any
\* exception sets is_trained = False and is re-raised as RuntimeError.
TrainFinish(pre, stan) ==
    LET fit == IF pre.ok THEN ProphetFit(pre.self.model, pre.nrows, stan)
               ELSE [ok |-> FALSE, exc |-> pre.exc, step |-> pre.step,
                     model |-> pre.self.model]
        s3 == [pre.self EXCEPT !.model = fit.model]
    IN  IF fit.ok
        THEN [ok |-> TRUE, exc |-> "None", cause |-> "None", step |-> "none",
              self |-> [s3 EXCEPT !.is_trained = TRUE]]
        ELSE [ok |-> FALSE, exc |-> "RuntimeError", cause |-> fit.exc, step |-> fit.step,
              self |-> [s3 EXCEPT !.is_trained = FALSE]]

\* --------------------------------------------------------------- predict
\* An initial_conditions dict: `keys` are the keys it holds, `badtype` the
\* keys whose value is not of the Python type _validate_inputs accepts; the
\* other fields are the values (areas, rate, code and year as integers,
\* prop_floresta as a rational).
AllKeys ==
    {"area_fazenda_ha", "area_floresta_ha", "prop_floresta", "estado_code",
     "Estado", "bioma", "y", "last_year"}

valid_biomas == {"Amazônia", "Caatinga", "Cerrado", "Pantanal", "Mata Atlântica", "Pampa"}

\* The order in which the type_checks dict is walked.
TypeCheckOrder ==
    <<"y", "area_fazenda_ha", "area_floresta_ha", "Estado", "bioma", "prop_floresta",
      "estado_code", "last_year">>

\* Mutant of ValidateInputs: the biome check runs before every other check.
ValidateInputs_BiomeFirst(self, inputs) ==
    LET required_keys ==
            SeqToSet(self.feature_columns) \cup SeqToSet(self.geo_columns)
            \cup {"y", "last_year"}
    IN
    IF inputs.bioma \notin valid_biomas THEN Raise("ValueError", "biome")
    ELSE IF required_keys \ inputs.keys # {} THEN Raise("ValueError", "missing_fields")
    ELSE IF \E i \in 1..Len(TypeCheckOrder) :
                TypeCheckOrder[i] \in inputs.keys /\ TypeCheckOrder[i] \in inputs.badtype
    THEN Raise("TypeError", "type")
    ELSE IF inputs.area_fazenda_ha < 0 THEN Raise("ValueError", "range")
    ELSE IF inputs.area_floresta_ha < 0 THEN Raise("ValueError", "range")
    ELSE IF FLess(inputs.prop_floresta, FInt(0)) THEN Raise("ValueError", "range")
    ELSE IF FLess(FInt(1), inputs.prop_floresta) THEN Raise("ValueError", "range")
    ELSE IF /\ hasattr(self.encoder_estados, "classes_")
            /\ inputs.Estado \notin self.encoder_estados.classes_
    THEN Raise("ValueError", "region")
    ELSE Ok

\* Mutant of ValidateInputs: the region name is not checked.
ValidateInputs_NoRegionCheck(self, inputs) ==
    LET required_keys ==
            SeqToSet(self.feature_columns) \cup SeqToSet(self.geo_columns)
            \cup {"y", "last_year"}
    IN
    IF required_keys \ inputs.keys # {} THEN Raise("ValueError", "missing_fields")
    ELSE IF \E i \in 1..Len(TypeCheckOrder) :
                TypeCheckOrder[i] \in inputs.keys /\ TypeCheckOrder[i] \in inputs.badtype
    THEN Raise("TypeError", "type")
    ELSE IF inputs.area_fazenda_ha < 0 THEN Raise("ValueError", "range")
    ELSE IF inputs.area_floresta_ha < 0 THEN Raise("ValueError", "range")
    ELSE IF FLess(inputs.prop_floresta, FInt(0)) THEN Raise("ValueError", "range")
    ELSE IF FLess(FInt(1), inputs.prop_floresta) THEN Raise("ValueError", "range")
    ELSE IF inputs.bioma \notin valid_biomas THEN Raise("ValueError", "biome")
    ELSE Ok

\* Mutant of ValidateInputs: the bounds of the range check are strict.
ValidateInputs_StrictRange(self, inputs) ==
    LET required_keys ==
            SeqToSet(self.feature_columns) \cup SeqToSet(self.geo_columns)
            \cup {"y", "last_year"}
    IN
    IF required_keys \ inputs.keys # {} THEN Raise("ValueError", "missing_fields")
    ELSE IF \E i \in 1..Len(TypeCheckOrder) :
                TypeCheckOrder[i] \in inputs.keys /\ TypeCheckOrder[i] \in inputs.badtype
    THEN Raise("TypeError", "type")
    ELSE IF inputs.area_fazenda_ha <= 0 THEN Raise("ValueError", "range")
    ELSE IF inputs.area_floresta_ha <= 0 THEN Raise("ValueError", "range")
    ELSE IF FLeq(inputs.prop_floresta, FInt(0)) THEN Raise("ValueError", "range")
    ELSE IF FLeq(FInt(1), inputs.prop_floresta) THEN Raise("ValueError", "range")
    ELSE IF inputs.bioma \notin valid_biomas THEN Raise("ValueError", "biome")
    ELSE IF /\ hasattr(self.encoder_estados, "classes_")
            /\ inputs.Estado \notin self.encoder_estados.classes_
    THEN Raise("ValueError", "region")
    ELSE Ok

\* _validate_inputs(self, inputs)
ValidateInputs(self, inputs) ==
    LET required_keys ==
            SeqToSet(self.feature_columns) \cup SeqToSet(self.geo_columns)
            \cup {"y", "last_year"}
    IN
    IF required_keys \ inputs.keys # {} THEN Raise("ValueError", "missing_fields")
    ELSE IF \E i \in 1..Len(TypeCheckOrder) :
                TypeCheckOrder[i] \in inputs.keys /\ TypeCheckOrder[i] \in inputs.badtype
    THEN Raise("TypeError", "type")
    ELSE IF inputs.area_fazenda_ha < 0 THEN Raise("ValueError", "range")
    ELSE IF inputs.area_floresta_ha < 0 THEN Raise("ValueError", "range")
    ELSE IF FLess(inputs.prop_floresta, FInt(0)) THEN Raise("ValueError", "range")
    ELSE IF FLess(FInt(1), inputs.prop_floresta) THEN Raise("ValueError", "range")
    ELSE IF inputs.bioma \notin valid_biomas THEN Raise("ValueError", "biome")
    ELSE IF /\ hasattr(self.encoder_estados, "classes_")
            /\ inputs.Estado \notin self.encoder_estados.classes_
    THEN Raise("ValueError", "region")
    ELSE Ok

\* predict(), lines 224-229: fill in estado_code and prop_floresta when the
\* caller's dict lacks them.
WithDerivedFields(self, ic) ==
    LET c1 == IF "estado_code" \notin ic.keys
              THEN [ic EXCEPT !.keys = @ \cup {"estado_code"},
                              !.estado_code = EncoderCode(self.encoder_estados, ic.Estado)]
              ELSE ic
        total_area == c1.area_fazenda_ha + c1.area_floresta_ha
    IN  IF "prop_floresta" \notin c1.keys
        THEN [c1 EXCEPT !.keys = @ \cup {"prop_floresta"},
                        !.prop_floresta = IF total_area > 0
                                          THEN Frac(c1.area_floresta_ha, total_area)
                                          ELSE FInt(0)]
        ELSE c1

Timestamp(year) == [year |-> year, month |-> 1, day |-> 1]

\* Mutant of DateRange: the range starts one year late.
DateRange_StartsLate(year, n) == List([k \in 1..n |-> Timestamp(year + k)])

\* pd.date_range(start=f"{year}-01-01", periods=n, freq='YS')
DateRange(year, n) == List([k \in 1..n |-> Timestamp(year + (k - 1))])

\* _create_future_dataframe(self, initial, horizon)
CreateFutureDataframe(self, initial, horizon) ==
    IF {"area_fazenda_ha", "area_floresta_ha", "prop_floresta", "y"} \cap initial.badtype # {}
    THEN Raise("TypeError", "future_type") @@ [df |-> <<>>]
    ELSE IF ~hasattr(self.encoder_estados, "transform")
    THEN Raise("AttributeError", "encoder_none") @@ [df |-> <<>>]
    ELSE IF initial.Estado \notin self.encoder_estados.classes_
    THEN Raise("ValueError", "future_region") @@ [df |-> <<>>]
    ELSE LET last_year == initial.last_year
             dates == SubSeq(DateRange(last_year + 1, horizon + 1), 1, horizon)
         IN  Ok @@ [df |-> List([k \in 1..Len(dates) |->
                        [ds |-> dates[k], y |-> initial.y,
                         area_fazenda_ha |-> FInt(initial.area_fazenda_ha),
                         area_floresta_ha |-> FInt(initial.area_floresta_ha),
                         prop_floresta |-> initial.prop_floresta,
                         estado_code |-> FInt(initial.estado_code),
                         Estado |-> initial.Estado, bioma |-> initial.bioma]])]

\* self.preprocessor.transform(future[self.feature_columns])
TransformFuture(p, future) ==
    IF ~hasattr(p, "transform")
    THEN Raise("AttributeError", "preprocessor_none") @@ [X |-> <<>>]
    ELSE IF ~p.fitted THEN Raise("NotFittedError", "scaler_not_fitted") @@ [X |-> <<>>]
    ELSE Ok @@ [X |-> StandardScalerTransform(p,
                    List([k \in 1..Len(future) |->
                        <<future[k].area_fazenda_ha, future[k].area_floresta_ha,
                          future[k].prop_floresta, future[k].estado_code>>]))]

\* The rate the fitted model predicts for the k-th future row.
Yhat(params, k) == FAdd(params.base, FMul(FInt(k - 1), params.step))

\* Mutant of ProphetPredict: an unfitted model answers with its defaults.
ProphetPredict_NoFitCheck(m, n) ==
    Ok @@ [yhat |-> List([k \in 1..n |-> Yhat(m.params, k)])]

\* Prophet.predict(future): needs a history and fitted parameters.
ProphetPredict(m, n) ==
    IF ~m.history THEN Raise("Exception", "model_not_fit") @@ [yhat |-> <<>>]
    ELSE IF ~m.params.fitted THEN Raise("KeyError", "model_no_params") @@ [yhat |-> <<>>]
    ELSE Ok @@ [yhat |-> List([k \in 1..n |-> Yhat(m.params, k)])]

\* Mutant of CumProd: the running sum of the series.
RECURSIVE CumProd_RunningSum(_)
CumProd_RunningSum(s) ==
    IF s = <<>> THEN <<>>
    ELSE LET front == CumProd_RunningSum(SubSeq(s, 1, Len(s) - 1))
         IN  IF front = <<>> THEN <<s[1]>>
             ELSE Append(front, FAdd(front[Len(front)], s[Len(s)]))

\* Series.cumprod()
RECURSIVE CumProd(_)
CumProd(s) ==
    IF s = <<>> THEN <<>>
    ELSE LET front == CumProd(SubSeq(s, 1, Len(s) - 1))
         IN  IF front = <<>> THEN <<s[1]>>
             ELSE Append(front, FMul(front[Len(front)], s[Len(s)]))

\* Mutant of ProjectedRows: farmland gains each year's converted share of the
\* initial forest instead of the cumulative loss of forest.
ProjectedRows_YearlyGain(ic, future, yhat) ==
    LET initial_floresta == FInt(ic.area_floresta_ha)
        factor == CumProd(List([k \in 1..Len(yhat) |-> FSub(FInt(1), yhat[k])]))
    IN  List([k \in 1..Len(yhat) |->
            LET floresta == FMul(initial_floresta, factor[k])
            IN  [data |-> future[k].ds, Estado |-> future[k].Estado,
                 bioma |-> future[k].bioma,
                 conversao_ha_prevista |-> yhat[k],
                 area_floresta_projetada |-> floresta,
                 area_fazenda_projetada |->
                     FAdd(FInt(ic.area_fazenda_ha), FMul(initial_floresta, yhat[k]))]])

\* Mutant of ProjectedRows: the forest shrinks every year by the historical
\* rate of the initial conditions.
ProjectedRows_HistoricalRate(ic, future, yhat) ==
    LET initial_floresta == FInt(ic.area_floresta_ha)
        factor == CumProd(List([k \in 1..Len(yhat) |-> FSub(FInt(1), FInt(ic.y))]))
    IN  List([k \in 1..Len(yhat) |->
            LET floresta == FMul(initial_floresta, factor[k])
            IN  [data |-> future[k].ds, Estado |-> future[k].Estado,
                 bioma |-> future[k].bioma,
                 conversao_ha_prevista |-> yhat[k],
                 area_floresta_projetada |-> floresta,
                 area_fazenda_projetada |->
                     FAdd(FInt(ic.area_fazenda_ha), FSub(initial_floresta, floresta))]])

\* lines 250-255: projected areas from the predicted rates.
ProjectedRows(ic, future, yhat) ==
    LET initial_floresta == FInt(ic.area_floresta_ha)
        factor == CumProd(List([k \in 1..Len(yhat) |-> FSub(FInt(1), yhat[k])]))
    IN  List([k \in 1..Len(yhat) |->
            LET floresta == FMul(initial_floresta, factor[k])
            IN  [data |-> future[k].ds, Estado |-> future[k].Estado,
                 bioma |-> future[k].bioma,
                 conversao_ha_prevista |-> yhat[k],
                 area_floresta_projetada |-> floresta,
                 area_fazenda_projetada |->
                     FAdd(FInt(ic.area_fazenda_ha), FSub(initial_floresta, floresta))]])

\* round(x, 4), half to even, as a rational with denominator 10^4.
Round4(x) ==
    LET scaled == x[1] * 10000
        q == scaled \div x[2]
        r == scaled % x[2]
        n == IF 2 * r < x[2] THEN q
             ELSE IF 2 * r > x[2] THEN q + 1
             ELSE IF q % 2 = 0 THEN q ELSE q + 1
    IN  Frac(n, 10000)

\* DataFrame.round(4): the numeric columns only.
RoundRows(rows) ==
    List([k \in 1..Len(rows) |->
        [rows[k] EXCEPT !.conversao_ha_prevista = Round4(@),
                        !.area_floresta_projetada = Round4(@),
                        !.area_fazenda_projetada = Round4(@)]])

NoForecast == [rows |-> <<>>, result |-> <<>>, future_processed |-> <<>>]

\* Mutant of PredictBody: a horizon of 0 passes the horizon check.
PredictBody_ZeroHorizon(self, initial_conditions, horizon) ==
    LET v == ValidateInputs(self, initial_conditions)
    IN
    IF ~v.ok THEN v @@ NoForecast
    ELSE IF ~horizon.isint \/ horizon.v < 0 THEN Raise("ValueError", "horizon") @@ NoForecast
    ELSE LET ic == WithDerivedFields(self, initial_conditions)
             fut == CreateFutureDataframe(self, ic, horizon.v)
         IN
         IF ~fut.ok THEN Raise(fut.exc, fut.step) @@ NoForecast
         ELSE LET fp == TransformFuture(self.preprocessor, fut.df)
              IN
              IF ~fp.ok THEN Raise(fp.exc, fp.step) @@ NoForecast
              ELSE LET fc == ProphetPredict(self.model, Len(fut.df))
                   IN
                   IF ~fc.ok THEN Raise(fc.exc, fc.step) @@ NoForecast
                   ELSE LET result == ProjectedRows(ic, fut.df, fc.yhat)
                        IN  Ok @@ [rows |-> RoundRows(result), result |-> result,
                                   future_processed |-> fp.X]

\* The try block of predict(): validation, horizon check, future frame,
\* scaling, model prediction, projected areas.
PredictBody(self, initial_conditions, horizon) ==
    LET v == ValidateInputs(self, initial_conditions)
    IN
    IF ~v.ok THEN v @@ NoForecast
    ELSE IF ~horizon.isint \/ horizon.v <= 0 THEN Raise("ValueError", "horizon") @@ NoForecast
    ELSE LET ic == WithDerivedFields(self, initial_conditions)
             fut == CreateFutureDataframe(self, ic, horizon.v)
         IN
         IF ~fut.ok THEN Raise(fut.exc, fut.step) @@ NoForecast
         ELSE LET fp == TransformFuture(self.preprocessor, fut.df)
              IN
              IF ~fp.ok THEN Raise(fp.exc, fp.step) @@ NoForecast
              ELSE LET fc == ProphetPredict(self.model, Len(fut.df))
                   IN
                   IF ~fc.ok THEN Raise(fc.exc, fc.step) @@ NoForecast
                   ELSE LET result == ProjectedRows(ic, fut.df, fc.yhat)
                        IN  Ok @@ [rows |-> RoundRows(result), result |-> result,
                                   future_processed |-> fp.X]

\* 'Estado desconhecido', the name logged when the dict has no 'Estado'.
EstadoDesconhecido == 0

\* predict(self, initial_conditions, horizon): the value returned or the
\* exception raised, and what was logged.
Predict(self, initial_conditions, horizon) ==
    IF "last_year" \notin initial_conditions.keys
    THEN Raise("ValueError", "last_year") @@ NoForecast
         @@ [cause |-> "None", logged |-> FALSE, log_region |-> EstadoDesconhecido]
    ELSE LET body == PredictBody(self, initial_conditions, horizon)
         IN  IF body.ok
             THEN body @@ [cause |-> "None", logged |-> FALSE,
                           log_region |-> EstadoDesconhecido]
             ELSE Raise("RuntimeError", body.step) @@ NoForecast
                  @@ [cause |-> body.exc, logged |-> TRUE,
                      log_region |-> IF "Estado" \in initial_conditions.keys
                                     THEN initial_conditions.Estado
                                     ELSE EstadoDesconhecido]

\* Mutant of AfterPredict: predict fits the scaler on the future frame.
AfterPredict_RefitsScaler(self, initial_conditions, horizon) ==
    IF "last_year" \in initial_conditions.keys
       /\ PredictBody(self, initial_conditions, horizon).ok
    THEN [self EXCEPT !.preprocessor =
            StandardScalerFit(
                LET fut == CreateFutureDataframe(self,
                               WithDerivedFields(self, initial_conditions), horizon.v).df
                IN  List([k \in 1..Len(fut) |->
                        <<fut[k].area_fazenda_ha, fut[k].area_floresta_ha,
                          fut[k].prop_floresta, fut[k].estado_code>>]))]
    ELSE self

\* The instance after predict(self, initial_conditions, horizon): no
\* statement of predict, _validate_inputs or _create_future_dataframe assigns
\* to self, and preprocessor.transform and model.predict only read.
AfterPredict(self, initial_conditions, horizon) == self

\* ----------------------------------------------------------- persistence
\* SIGLAS_ESTADOS restricted to the region names 1 ('Acre') and 2 ('Alagoas');
\* the names 3 and 4 are not keys of the dict.
SIGLAS_ESTADOS == [e \in {1, 2} |-> IF e = 1 THEN "AC" ELSE "AL"]

\* SIGLAS_ESTADOS.get(estado, 'XX')
Sigla(estado) ==
    IF estado \in DOMAIN SIGLAS_ESTADOS THEN SIGLAS_ESTADOS[estado] ELSE "XX"

\* Path('eco_guardian/models/saved_models') / f"unified_prophet_v4_{sigla}.pkl"
OutputPath(sigla) == "unified_prophet_v4_" \o sigla \o ".pkl"

Paths == {OutputPath(g) : g \in {"AC", "AL", "XX"}}

\* The path the forecaster on its own is saved to and loaded from.
SamplePath == OutputPath("AC")

NoFile ==
    [exists |-> FALSE, model |-> NewProphet, preprocessor |-> UnfittedPreprocessor,
     encoder_estados |-> NoEncoder, feature_columns |-> <<>>, geo_columns |-> <<>>,
     states_trained |-> {}]

\* The dict joblib.dump writes (train_date, the wall-clock time, left out).
Artifact(self) ==
    [exists |-> TRUE, model |-> self.model, preprocessor |-> self.preprocessor,
     encoder_estados |-> self.encoder_estados,
     feature_columns |-> self.feature_columns, geo_columns |-> self.geo_columns,
     states_trained |-> self.encoder_estados.classes_]

\* Mutant of SaveModel: the artifact is written whatever the instance holds.
SaveModel_WritesAnyway(self, file) ==
    Ok @@ [file |-> Artifact(self), mkdir |-> TRUE]

\* save_model(self, output_path): the outcome, the file afterwards, and
\* whether output_path.parent.mkdir was called.
SaveModel(self, file) ==
    IF ~self.is_trained
    THEN Raise("RuntimeError", "not_trained") @@ [file |-> file, mkdir |-> FALSE]
    ELSE IF \E a \in {self.model, self.preprocessor, self.encoder_estados} : a.kind = "None"
    THEN Raise("ValueError", "missing_artifact") @@ [file |-> file, mkdir |-> FALSE]
    ELSE Ok @@ [file |-> Artifact(self), mkdir |-> TRUE]

\* Mutant of LoadModel: the artifact's preprocessor is not restored.
LoadModel_FreshScaler(file) ==
    IF ~file.exists
    THEN Raise("FileNotFoundError", "file_not_found") @@ [forecaster |-> NewForecaster]
    ELSE LET forecaster ==
                 [NewForecaster EXCEPT !.model = file.model,
                                       !.feature_columns = file.feature_columns,
                                       !.geo_columns = file.geo_columns,
                                       !.encoder_estados = file.encoder_estados]
         IN  IF forecaster.encoder_estados.kind = "None"
             THEN Raise("RuntimeError", "encoder_missing") @@ [forecaster |-> forecaster]
             ELSE IF hasattr(forecaster.preprocessor, "transform")
             THEN Ok @@ [forecaster |-> [forecaster EXCEPT !.is_trained = TRUE]]
             ELSE Raise("RuntimeError", "preprocessor_missing") @@ [forecaster |-> forecaster]

\* load_model(cls, model_path): the outcome and the instance returned.
LoadModel(file) ==
    IF ~file.exists
    THEN Raise("FileNotFoundError", "file_not_found") @@ [forecaster |-> NewForecaster]
    ELSE LET forecaster ==
                 [NewForecaster EXCEPT !.model = file.model,
                                       !.preprocessor = file.preprocessor,
                                       !.feature_columns = file.feature_columns,
                                       !.geo_columns = file.geo_columns,
                                       !.encoder_estados = file.encoder_estados]
         IN  IF forecaster.encoder_estados.kind = "None"
             THEN Raise("RuntimeError", "encoder_missing") @@ [forecaster |-> forecaster]
             ELSE IF hasattr(forecaster.preprocessor, "transform")
             THEN Ok @@ [forecaster |-> [forecaster EXCEPT !.is_trained = TRUE]]
             ELSE Raise("RuntimeError", "preprocessor_missing") @@ [forecaster |-> forecaster]

\* ------------------------------------------------------------- the inputs
\* The encoder the training driver fits over all region names of the data
\* and assigns to every forecaster; region 3 is a name it has not seen.
estado_encoder == LabelEncoder({1, 2})

Rate(v) == [kind |-> "num", v |-> v]
Infinite == [kind |-> "inf", v |-> 0]

Row(estado, year, areas, rate) ==
    [Estado |-> estado, ds |-> year, bioma |-> "Amazônia",
     area_fazenda_ha |-> areas[1], area_floresta_ha |-> areas[2], y |-> rate]

\* Raw training rows: rows of the known region 2 in two years, one of them
\* with an infinite rate, one with no area at all, and a row of region 3.
TrainRows ==
    {Row(2, d, a, Rate(1)) : d \in {2022, 2023}, a \in {<<1, 3>>, <<1, 0>>}}
    \cup {Row(2, 2023, <<1, 3>>, Infinite),
          Row(2, 2023, <<1, 3>>, Rate(2)),
          Row(2, 2022, <<0, 0>>, Rate(1)),
          Row(3, 2022, <<1, 3>>, Rate(1))}

SeqsUpTo(S, n) == UNION {[1..k -> S] : k \in 0..n}

SampleRow == Row(2, 2022, <<1, 3>>, Rate(1))

DataFrames ==
    {[columns |-> RequiredCols, rows |-> r] : r \in SeqsUpTo(TrainRows, MaxRows)}
    \cup {[columns |-> RequiredCols \ {c}, rows |-> <<SampleRow>>] : c \in {"y", "bioma"}}

\* The few frames used where artifacts are written and read back.
FewFrames ==
    {[columns |-> RequiredCols, rows |-> r] :
        r \in SeqsUpTo({SampleRow, Row(2, 2023, <<1, 0>>, Rate(1))}, MaxRows)}

BaseIC(estado, fazenda, floresta, code) ==
    [keys |-> AllKeys, badtype |-> {},
     Estado |-> estado, bioma |-> "Amazônia",
     area_fazenda_ha |-> fazenda, area_floresta_ha |-> floresta,
     prop_floresta |-> IF fazenda + floresta > 0
                       THEN Frac(floresta, fazenda + floresta) ELSE FInt(0),
     y |-> 1, estado_code |-> code, last_year |-> 2023]

CompleteICs ==
    {BaseIC(e, a[1], a[2], c) : e \in {2, 3}, a \in {<<1, 3>>, <<2, 0>>}, c \in {0, 1}}

SampleIC == BaseIC(2, 1, 3, 1)

DefectiveICs ==
    {[SampleIC EXCEPT !.keys = AllKeys \ {k}] : k \in AllKeys}
    \cup {[SampleIC EXCEPT !.keys = AllKeys \ {"prop_floresta", "estado_code"}]}
    \cup {[SampleIC EXCEPT !.badtype = {k}] : k \in AllKeys}
    \cup {[SampleIC EXCEPT !.area_fazenda_ha = -1],
          [SampleIC EXCEPT !.area_floresta_ha = -1],
          [SampleIC EXCEPT !.prop_floresta = Frac(-1, 2)],
          [SampleIC EXCEPT !.prop_floresta = Frac(3, 2)],
          [SampleIC EXCEPT !.bioma = "Deserto"],
          [SampleIC EXCEPT !.bioma = "Deserto", !.keys = AllKeys \ {"y"}],
          [SampleIC EXCEPT !.bioma = "Deserto", !.badtype = {"y"}],
          [SampleIC EXCEPT !.keys = AllKeys \ {"y"}, !.badtype = {"bioma"}],
          [SampleIC EXCEPT !.keys = AllKeys \ {"last_year"}, !.bioma = "Deserto"],
          [SampleIC EXCEPT !.badtype = {"y"}, !.area_fazenda_ha = -1],
          [SampleIC EXCEPT !.area_floresta_ha = -1, !.bioma = "Deserto"],
          [SampleIC EXCEPT !.bioma = "Deserto", !.Estado = 3]}

\* Dicts on the edges of the range check: no farmland (forest proportion 1),
\* no forest (forest proportion 0), a negative rate.
BoundaryICs ==
    {BaseIC(2, 0, 3, 1), BaseIC(2, 2, 0, 1),
     [BaseIC(2, 0, 3, 1) EXCEPT !.y = -1], [SampleIC EXCEPT !.y = -1]}

Horizon(h) == [isint |-> TRUE, v |-> h]
Horizons == {Horizon(h) : h \in (-1)..MaxHorizon} \cup {[isint |-> FALSE, v |-> 1]}

PredictInputs ==
    (CompleteICs \X Horizons) \cup (DefectiveICs \X {Horizon(0), Horizon(1)})
    \cup (BoundaryICs \X {Horizon(1)})

FewPredictInputs == CompleteICs \X {Horizon(MaxHorizon)}

\* ---------------------------------------------------------------- state
NoDF == [columns |-> {}, rows |-> <<>>]

VARIABLES
    forecaster,  \* the UnifiedForecaster instance the caller holds
    disk,        \* the artifact file at each path
    saved,       \* per path, the instance as it was when save_model wrote it
    ret,         \* the call just made, with its arguments and outcome
    driver,      \* the training driver: its position, data, encoder, exit code
    pool         \* forecasters of several regions sharing one encoder object

vars == <<forecaster, disk, saved, ret, driver, pool>>

\* No forecasters besides the caller's.
NoPool ==
    [estado_encoder |-> NoEncoder, f |-> <<>>,
     last |-> [estado |-> 0, op |-> "none", ok |-> TRUE]]

\* The training driver is not running.
NoDriver ==
    [pc |-> "off", data |-> NoDF, estado_encoder |-> NoEncoder, fits |-> 0,
     todo |-> <<>>, estado |-> 0, written |-> <<>>, exit |-> -1]

NoHorizon == [isint |-> FALSE, v |-> 0]
NoPath == "none"

\* The caller is between calls.
Idle ==
    [op |-> "idle", df |-> NoDF, ic |-> SampleIC, horizon |-> NoHorizon, path |-> NoPath,
     ok |-> TRUE, exc |-> "None", cause |-> "None", step |-> "none",
     logged |-> FALSE, log_region |-> EstadoDesconhecido, mkdir |-> FALSE,
     out |-> <<>>, rows |-> <<>>, result |-> <<>>, future_processed |-> <<>>]

Init ==
    /\ forecaster = NewForecaster
    /\ disk = [p \in Paths |-> NoFile]
    /\ saved = [p \in Paths |-> NewForecaster]
    /\ ret = Idle
    /\ driver = NoDriver
    /\ pool = NoPool

\* forecaster = UnifiedForecaster()
Construct ==
    /\ ret.op = "idle"
    /\ forecaster # NewForecaster
    /\ forecaster' = NewForecaster
    /\ UNCHANGED <<disk, saved, ret, driver, pool>>

\* forecaster.encoder_estados = estado_encoder
SetEncoder ==
    /\ ret.op = "idle"
    /\ forecaster.encoder_estados # estado_encoder
    /\ forecaster' = [forecaster EXCEPT !.encoder_estados = estado_encoder]
    /\ UNCHANGED <<disk, saved, ret, driver, pool>>

preprocess_data(frames) ==
    /\ ret.op = "idle"
    /\ \E df \in frames :
          \E r \in {PreprocessData(forecaster, df)} :
              /\ forecaster' = [forecaster EXCEPT !.preprocessor = r.preprocessor]
              /\ ret' = [Idle EXCEPT !.op = "preprocess_data", !.df = df, !.ok = r.ok,
                                     !.exc = r.exc, !.step = r.step, !.out = r.out]
    /\ UNCHANGED <<disk, saved, driver, pool>>

train(frames) ==
    /\ ret.op = "idle"
    /\ \E df \in frames :
          \E pre \in {TrainBeforeFit(forecaster, df)} :
            \E stan \in (IF pre.ok /\ ~pre.self.model.history /\ pre.nrows >= 2
                          THEN StanOutcomes ELSE {[ok |-> FALSE, params |-> NoParams]}) :
              \E r \in {TrainFinish(pre, stan)} :
                    /\ forecaster' = r.self
                    /\ ret' = [Idle EXCEPT !.op = "train", !.df = df, !.ok = r.ok,
                                           !.exc = r.exc, !.cause = r.cause,
                                           !.step = r.step]
    /\ UNCHANGED <<disk, saved, driver, pool>>

predict(inputs) ==
    /\ ret.op = "idle"
    /\ \E in \in inputs :
          \E r \in {Predict(forecaster, in[1], in[2])} :
              ret' = [Idle EXCEPT !.op = "predict", !.ic = in[1], !.horizon = in[2],
                                 !.ok = r.ok, !.exc = r.exc, !.cause = r.cause,
                                 !.step = r.step, !.logged = r.logged,
                                 !.log_region = r.log_region, !.rows = r.rows,
                                 !.result = r.result,
                                 !.future_processed = r.future_processed]
    /\ \E in \in {<<ret'.ic, ret'.horizon>>} :
          forecaster' = AfterPredict(forecaster, in[1], in[2])
    /\ UNCHANGED <<disk, saved, driver, pool>>

save_model(paths) ==
    /\ ret.op = "idle"
    /\ \E p \in paths :
          \E r \in {SaveModel(forecaster, disk[p])} :
              /\ disk' = [disk EXCEPT ![p] = r.file]
              /\ saved' = IF r.ok THEN [saved EXCEPT ![p] = forecaster] ELSE saved
              /\ ret' = [Idle EXCEPT !.op = "save_model", !.path = p, !.ok = r.ok,
                                     !.exc = r.exc, !.step = r.step, !.mkdir = r.mkdir]
    /\ UNCHANGED <<forecaster, driver, pool>>

load_model(paths) ==
    /\ ret.op = "idle"
    /\ \E p \in paths :
          \E r \in {LoadModel(disk[p])} :
              /\ forecaster' = IF r.ok THEN r.forecaster ELSE forecaster
              /\ ret' = [Idle EXCEPT !.op = "load_model", !.path = p, !.ok = r.ok,
                                     !.exc = IF r.ok \/ r.exc = "FileNotFoundError"
                                             THEN r.exc ELSE "RuntimeError",
                                     !.cause = IF r.ok THEN "None" ELSE r.exc,
                                     !.step = r.step]
    /\ UNCHANGED <<disk, saved, driver, pool>>

\* The caller takes the value or the exception of the call and goes on.
Return ==
    /\ ret.op # "idle"
    /\ ret' = Idle
    /\ UNCHANGED <<forecaster, disk, saved, driver, pool>>

\* The forecaster on its own: construction, training and inference.
Next ==
    \/ Construct
    \/ SetEncoder
    \/ preprocess_data(DataFrames)
    \/ train(DataFrames)
    \/ predict(PredictInputs)
    \/ Return

Spec == Init /\ [][Next]_vars

\* The forecaster with its artifact file: training, saving and loading.
NextPersist ==
    \/ Construct
    \/ SetEncoder
    \/ preprocess_data(FewFrames)
    \/ train(FewFrames)
    \/ predict(FewPredictInputs)
    \/ save_model({SamplePath})
    \/ load_model({SamplePath})
    \/ Return

SpecPersist == Init /\ [][NextPersist]_vars

\* ------------------------------------------- artifacts from elsewhere
\* A scaler and a model as a completed training leaves them.
FittedSampleScaler ==
    StandardScalerFit(FeatureMatrix(estado_encoder,
        GroupRows(<<SampleRow, Row(2, 2023, <<1, 0>>, Rate(1))>>)))

FittedSampleProphet ==
    [kind |-> "Prophet", history |-> TRUE, extra_regressors |-> SeqToSet(FeatureColumns),
     params |-> [fitted |-> TRUE, base |-> Frac(1, 3), step |-> Frac(1, 2)]]

\* What joblib.load may find at a path: no file, or a dict whose 'model' is a
\* fitted or a new Prophet, whose 'preprocessor' is a fitted or a new
\* ColumnTransformer or missing, and whose 'encoder_estados' is a fitted
\* encoder or missing.
ArtifactFiles ==
    {NoFile} \cup
    {[exists |-> TRUE, model |-> m, preprocessor |-> pp, encoder_estados |-> enc,
      feature_columns |-> FeatureColumns, geo_columns |-> GeoColumns,
      states_trained |-> enc.classes_] :
        m \in {FittedSampleProphet, NewProphet},
        pp \in {FittedSampleScaler, UnfittedPreprocessor,
                [UnfittedPreprocessor EXCEPT !.kind = "None"]},
        enc \in {estado_encoder, NoEncoder}}

InitLoad ==
    /\ forecaster = NewForecaster
    /\ \E file \in ArtifactFiles :
          disk = [p \in Paths |-> IF p = SamplePath THEN file ELSE NoFile]
    /\ saved = [p \in Paths |-> NewForecaster]
    /\ ret = Idle
    /\ driver = NoDriver
    /\ pool = NoPool

\* The dashboard: load_model of whatever file is at the path, then predict.
NextLoad ==
    \/ load_model({SamplePath})
    \/ predict(PredictInputs)
    \/ Return

SpecLoad == InitLoad /\ [][NextLoad]_vars

\* ------------------------------------------------- the training driver
\* main() of train_time_series.py.  Areas of the loaded data are whole
\* multiples of 0.0001 ha, so clip(lower=0.0001) is a lower bound of 1; the
\* columns 'ano' and 'taxa_conversao_anual' go by the names 'ds' and 'y'
\* they are renamed to.
ClipArea(a) == IF a < 1 THEN 1 ELSE a

\* df.groupby(['Estado','ano','bioma']).agg(sum, sum, weighted average): one
\* row per key in sorted key order.  The data has one row per key, whose
\* weighted average rate is its own rate.
DriverGroup(rows) ==
    LET keys == SortKeys({GroupKey(rows[i]) : i \in 1..Len(rows)})
    IN  List([k \in 1..Len(keys) |->
            LET r == rows[FirstIndex(rows, keys[k])]
            IN  [r EXCEPT !.area_fazenda_ha = SumOver(rows, keys[k], "area_fazenda_ha"),
                          !.area_floresta_ha = SumOver(rows, keys[k], "area_floresta_ha")]])

\* df['Estado'].unique() of the grouped frame: the names in sorted order.
RECURSIVE SortNames(_)
SortNames(S) ==
    IF S = {} THEN <<>>
    ELSE LET m == CHOOSE x \in S : \A y \in S : x <= y
         IN  <<m>> \o SortNames(S \ {m})

UniqueEstados(rows) == SortNames({rows[i].Estado : i \in 1..Len(rows)})

\* Mutant of FitEncoder: the encoder is fit on the first region name only.
FitEncoder_FirstNameOnly(names) == LabelEncoder({Head(names)})

\* estado_encoder = LabelEncoder(); estado_encoder.fit(df['Estado'].unique())
FitEncoder(names) == LabelEncoder(SeqToSet(names))

\* Lines 61-77: load, clip, group, rename, validate.  A frame without one of
\* the columns raises before the loop; otherwise the grouped frame.
DriverPrepare(df) ==
    IF RequiredCols \ df.columns # {}
    THEN Raise("KeyError", "load_columns") @@ [df |-> df]
    ELSE LET clipped == List([i \in 1..Len(df.rows) |->
                            [df.rows[i] EXCEPT !.area_fazenda_ha = ClipArea(@),
                                               !.area_floresta_ha = ClipArea(@)]])
         IN  Ok @@ [df |-> [columns |-> df.columns, rows |-> DriverGroup(clipped)]]

\* df[df['Estado'] == estado].copy() with the column estado_code added
DfEstado(df, estado) ==
    [columns |-> df.columns \cup {"estado_code"},
     rows |-> SelectSeq(df.rows, LAMBDA r : r.Estado = estado)]

TwoYears(e) == <<Row(e, 2022, <<1, 3>>, Rate(1)), Row(e, 2023, <<2, 2>>, Rate(1))>>

\* The data sets the driver is run on: regions with two years of data each
\* (names of SIGLAS_ESTADOS, other names, both, in and out of order), a
\* region with a single year, a row without farmland, a missing column.
DriverData ==
    {[columns |-> RequiredCols, rows |-> r] :
        r \in {TwoYears(1) \o TwoYears(2),
               TwoYears(2) \o TwoYears(1),
               TwoYears(3) \o TwoYears(4),
               TwoYears(1) \o TwoYears(3),
               TwoYears(3) \o TwoYears(4) \o <<Row(5, 2022, <<1, 3>>, Rate(1))>>,
               TwoYears(1) \o <<Row(2, 2022, <<1, 3>>, Rate(1))>>,
               <<Row(1, 2022, <<1, 3>>, Rate(1))>> \o TwoYears(2),
               <<Row(1, 2022, <<0, 3>>, Rate(1)), Row(1, 2023, <<1, 3>>, Rate(1))>>}}
    \cup {[columns |-> RequiredCols \ {"bioma"}, rows |-> TwoYears(1)]}

InitDriver ==
    /\ forecaster = NewForecaster
    /\ disk = [p \in Paths |-> NoFile]
    /\ saved = [p \in Paths |-> NewForecaster]
    /\ ret = Idle
    /\ \E df \in DriverData : driver = [NoDriver EXCEPT !.pc = "start", !.data = df]
    /\ pool = NoPool

\* except Exception: logger.error(...); return 1
DriverFailed(d) == [d EXCEPT !.pc = "failed", !.exit = 1]

\* main(), lines 58-92: prepare the data and fit the global encoder.
DriverStart ==
    /\ driver.pc = "start"
    /\ \E r \in {DriverPrepare(driver.data)} :
          driver' = IF ~r.ok THEN DriverFailed(driver)
                    ELSE [driver EXCEPT !.pc = "loop", !.data = r.df,
                                        !.estado_encoder = FitEncoder(UniqueEstados(r.df.rows)),
                                        !.fits = @ + 1,
                                        !.todo = UniqueEstados(r.df.rows)]
    /\ UNCHANGED <<forecaster, disk, saved, ret, pool>>

\* lines 95-101: next region, a new forecaster, the shared encoder.
DriverConstruct ==
    /\ driver.pc = "loop"
    /\ driver.todo # <<>>
    /\ forecaster' = [NewForecaster EXCEPT !.encoder_estados = driver.estado_encoder]
    /\ driver' = [driver EXCEPT !.pc = "train", !.estado = Head(driver.todo)]
    /\ UNCHANGED <<disk, saved, ret, pool>>

\* lines 103-106: forecaster.train(df_estado)
DriverTrain ==
    /\ driver.pc = "train"
    /\ \E pre \in {TrainBeforeFit(forecaster, DfEstado(driver.data, driver.estado))} :
         \E stan \in (IF pre.ok /\ ~pre.self.model.history /\ pre.nrows >= 2
                       THEN StanOutcomes ELSE {[ok |-> FALSE, params |-> NoParams]}) :
           \E r \in {TrainFinish(pre, stan)} :
              /\ forecaster' = r.self
              /\ driver' = IF r.ok THEN [driver EXCEPT !.pc = "save"] ELSE DriverFailed(driver)
    /\ UNCHANGED <<disk, saved, ret, pool>>

\* lines 96, 109-111: forecaster.save_model(output_path), then the next region.
DriverSave ==
    /\ driver.pc = "save"
    /\ \E p \in {OutputPath(Sigla(driver.estado))} :
         \E r \in {SaveModel(forecaster, disk[p])} :
            /\ disk' = [disk EXCEPT ![p] = r.file]
            /\ saved' = IF r.ok THEN [saved EXCEPT ![p] = forecaster] ELSE saved
            /\ driver' = IF r.ok
                         THEN [driver EXCEPT !.pc = "loop", !.todo = Tail(@),
                                             !.written = Append(@, p)]
                         ELSE DriverFailed(driver)
    /\ UNCHANGED <<forecaster, ret, pool>>

\* lines 113-114: the loop is over; return 0.
DriverReturn ==
    /\ driver.pc = "loop"
    /\ driver.todo = <<>>
    /\ driver' = [driver EXCEPT !.pc = "done", !.exit = 0]
    /\ UNCHANGED <<forecaster, disk, saved, ret, pool>>

NextDriver ==
    \/ DriverStart
    \/ DriverConstruct
    \/ DriverTrain
    \/ DriverSave
    \/ DriverReturn

SpecDriver == InitDriver /\ [][NextDriver]_vars

\* ------------------------------------- forecasters of several regions
\* One forecaster per region, made as the driver makes them (a new instance,
\* the one fitted encoder object assigned to it), and train, predict and
\* save_model calls on them in any order.  Region 1 is a key of
\* SIGLAS_ESTADOS, regions 3 and 4 are not.
PoolRegions == {1, 3, 4}

\* The sampler outcomes considered where several forecasters are trained.
PoolStanOutcomes ==
    {[ok |-> FALSE, params |-> NoParams],
     [ok |-> TRUE, params |-> [fitted |-> TRUE, base |-> Frac(1, 3), step |-> FInt(0)]],
     [ok |-> TRUE, params |-> [fitted |-> TRUE, base |-> Frac(1, 3), step |-> Frac(1, 2)]]}

\* The instance of region e as its methods see it: its encoder_estados is
\* the shared object.
PoolSelf(e) == [pool.f[e] EXCEPT !.encoder_estados = pool.estado_encoder]

InitPool ==
    /\ forecaster = NewForecaster
    /\ disk = [p \in Paths |-> NoFile]
    /\ saved = [p \in Paths |-> NewForecaster]
    /\ ret = Idle
    /\ driver = NoDriver
    /\ pool = [estado_encoder |-> FitEncoder(SortNames(PoolRegions)),
               f |-> [e \in PoolRegions |->
                        [NewForecaster EXCEPT
                            !.encoder_estados = FitEncoder(SortNames(PoolRegions))]],
               last |-> [estado |-> 0, op |-> "none", ok |-> TRUE]]

\* forecaster.train(df_estado) on the forecaster of region e
PoolTrain(e) ==
    /\ \E pre \in {TrainBeforeFit(PoolSelf(e),
                       DfEstado([columns |-> RequiredCols, rows |-> TwoYears(e)], e))} :
         \E stan \in (IF pre.ok /\ ~pre.self.model.history /\ pre.nrows >= 2
                       THEN PoolStanOutcomes ELSE {[ok |-> FALSE, params |-> NoParams]}) :
           \E r \in {TrainFinish(pre, stan)} :
              pool' = [pool EXCEPT !.f[e] = r.self,
                                   !.estado_encoder = r.self.encoder_estados,
                                   !.last = [estado |-> e, op |-> "train", ok |-> r.ok]]
    /\ UNCHANGED <<forecaster, disk, saved, ret, driver>>

\* forecaster.predict(condicoes, horizon) on the forecaster of region e
PoolPredict(e) ==
    /\ \E r \in {Predict(PoolSelf(e),
                     BaseIC(e, 1, 3, EncoderCode(pool.estado_encoder, e)), Horizon(1))} :
          pool' = [pool EXCEPT !.last = [estado |-> e, op |-> "predict", ok |-> r.ok]]
    /\ UNCHANGED <<forecaster, disk, saved, ret, driver>>

\* forecaster.save_model(output_path) on the forecaster of region e
PoolSave(e) ==
    /\ \E p \in {OutputPath(Sigla(e))} :
         \E r \in {SaveModel(PoolSelf(e), disk[p])} :
            /\ disk' = [disk EXCEPT ![p] = r.file]
            /\ saved' = IF r.ok THEN [saved EXCEPT ![p] = PoolSelf(e)] ELSE saved
            /\ pool' = [pool EXCEPT !.last = [estado |-> e, op |-> "save_model", ok |-> r.ok]]
    /\ UNCHANGED <<forecaster, ret, driver>>

NextPool ==
    \/ \E e \in PoolRegions : PoolTrain(e)
    \/ \E e \in PoolRegions : PoolPredict(e)
    \/ \E e \in PoolRegions : PoolSave(e)

SpecPool == InitPool /\ [][NextPool]_vars

\* ================================================================ claims
\* Inputs that satisfy every rule of the inference input contract, stated
\* on the dict itself.
WellFormedIC(self, ic) ==
    /\ ic.keys = AllKeys
    /\ ic.badtype = {}
    /\ ic.area_fazenda_ha >= 0
    /\ ic.area_floresta_ha >= 0
    /\ FLeq(FInt(0), ic.prop_floresta) /\ FLeq(ic.prop_floresta, FInt(1))
    /\ ic.bioma \in valid_biomas
    /\ ic.Estado \in self.encoder_estados.classes_

ValidHorizon(h) == h.isint /\ h.v >= 1

\* A train() call of this instance has succeeded (or a trained model was
\* loaded into it): its model holds fitted parameters.
ModelFitted(self) == self.model.params.fitted

\* C1: right after a successful train() is_trained is true, and on an
\* instance whose train() has succeeded predict with valid inputs returns
\* exactly `horizon` rows dated 1 January of last_year+1 .. last_year+horizon.
C1_TrainThenPredict ==
    /\ (ret.op = "train" /\ ret.ok) => forecaster.is_trained
    /\ (/\ ret.op = "predict"
        /\ ModelFitted(forecaster)
        /\ WellFormedIC(forecaster, ret.ic)
        /\ ValidHorizon(ret.horizon))
       => /\ ret.ok
          /\ Len(ret.rows) = ret.horizon.v
          /\ \A k \in 1..Len(ret.rows) :
                ret.rows[k].data = [year |-> ret.ic.last_year + k, month |-> 1, day |-> 1]

C1_Witness ==
    /\ ret.op = "predict" /\ ret.ok
    /\ forecaster.is_trained
    /\ Len(ret.rows) = MaxHorizon
    /\ ret.rows[MaxHorizon].data.year = ret.ic.last_year + MaxHorizon

\* C2: once is_trained is true it stays true over every later train,
\* preprocess_data, predict and save_model call on the instance.
C2_OneWayLifecycle ==
    [][(/\ forecaster.is_trained
        /\ ret'.op \in {"train", "preprocess_data", "predict", "save_model"})
       => forecaster'.is_trained]_vars

\* C3: predict on an instance that was never trained and never loaded
\* raises and returns no rows, with or without an encoder.
C3_FreshPredictRaises ==
    (ret.op = "predict" /\ ~ModelFitted(forecaster))
    => (~ret.ok /\ ret.rows = <<>>)

C3_Witness ==
    /\ ret.op = "predict" /\ ~ret.ok
    /\ ~ModelFitted(forecaster)
    /\ forecaster.preprocessor.fitted
    /\ WellFormedIC(forecaster, ret.ic) /\ ValidHorizon(ret.horizon)
    /\ ret.cause = "Exception"

C5_Conservation ==
    (ret.op = "predict" /\ ret.ok)
    => \A k \in 1..Len(ret.result) :
          FAdd(ret.result[k].area_floresta_projetada, ret.result[k].area_fazenda_projetada)
          = FInt(ret.ic.area_floresta_ha + ret.ic.area_fazenda_ha)

C5_Witness ==
    /\ ret.op = "predict" /\ ret.ok
    /\ ret.ic.area_floresta_ha > 0
    /\ \E k \in 1..Len(ret.result) :
          /\ FLess(FInt(1), ret.result[k].conversao_ha_prevista)
          /\ FLess(ret.result[k].area_floresta_projetada, FInt(0))

\* C6: on a trained instance predict succeeds on a dict that holds the six
\* required fields and omits estado_code and prop_floresta.
C6_DerivedFieldsOptional ==
    (/\ ret.op = "predict"
     /\ forecaster.is_trained /\ ModelFitted(forecaster)
     /\ ret.ic.keys = AllKeys \ {"estado_code", "prop_floresta"}
     /\ WellFormedIC(forecaster, [ret.ic EXCEPT !.keys = AllKeys])
     /\ ValidHorizon(ret.horizon))
    => ret.ok

\* C7: once the scaler is fitted, a preprocess_data call (direct or inside
\* train) leaves its parameters unchanged.
C7_ScalerFitOnce ==
    [][(/\ forecaster.preprocessor.fitted
        /\ ret'.op \in {"preprocess_data", "train"})
       => forecaster'.preprocessor = forecaster.preprocessor]_vars

ValidationSteps ==
    {"y_missing", "missing_columns", "invalid_area", "unknown_region",
     "last_year", "missing_fields", "type", "range", "biome", "region", "horizon"}

\* C9: a train() or predict() call that rejects its input with a validation
\* error leaves the whole forecaster state as it was.
C9_ValidationFrame ==
    [][(/\ ret'.op \in {"train", "predict"}
        /\ ~ret'.ok
        /\ ret'.step \in ValidationSteps)
       => forecaster' = forecaster]_vars

\* C10: every failure of predict reaches the caller as RuntimeError with
\* the original cause attached, and is logged with the region name first.
C10_PredictFailureKind ==
    (ret.op = "predict" /\ ~ret.ok)
    => /\ ret.exc = "RuntimeError"
       /\ ret.cause # "None"
       /\ ret.logged
       /\ "Estado" \in ret.ic.keys => ret.log_region = ret.ic.Estado

\* The checks of the inference input contract in their stated order, and the
\* first of them the dict fails ("none" when it fails none).
OutOfRange(ic) ==
    \/ ic.area_fazenda_ha < 0
    \/ ic.area_floresta_ha < 0
    \/ FLess(ic.prop_floresta, FInt(0))
    \/ FLess(FInt(1), ic.prop_floresta)

FirstFailingCheck(self, ic) ==
    IF AllKeys \ ic.keys # {} THEN "MissingFields"
    ELSE IF ic.badtype # {} THEN "TypeMismatch"
    ELSE IF OutOfRange(ic) THEN "OutOfRange"
    ELSE IF ic.bioma \notin valid_biomas THEN "InvalidBiome"
    ELSE IF self.encoder_estados.kind # "None" /\ ic.Estado \notin self.encoder_estados.classes_
    THEN "UnknownRegion"
    ELSE "none"

\* The check a raise site of predict belongs to.
CheckOf(step) ==
    CASE step \in {"last_year", "missing_fields"} -> "MissingFields"
      [] step = "type" -> "TypeMismatch"
      [] step = "range" -> "OutOfRange"
      [] step = "biome" -> "InvalidBiome"
      [] step \in {"region", "future_region"} -> "UnknownRegion"
      [] OTHER -> "none"

\* C11: predict reports the first failing check in the order missing fields,
\* type, range, biome, region, whatever the horizon and whatever later check
\* would fail too, and a failing check leaves no future frame and no rows; the
\* horizon check and everything after it are reached only by dicts that pass
\* all five.
C11_ValidationOrder ==
    (ret.op = "predict")
    => /\ CheckOf(ret.step) = FirstFailingCheck(forecaster, ret.ic)
       /\ FirstFailingCheck(forecaster, ret.ic) # "none"
          => (~ret.ok /\ ret.rows = <<>> /\ ret.future_processed = <<>>)

C11_Witness ==
    /\ ret.op = "predict" /\ ~ret.ok
    /\ "y" \notin ret.ic.keys
    /\ ret.ic.bioma \notin valid_biomas
    /\ ret.horizon = Horizon(0)
    /\ ret.step = "missing_fields"

\* C12: on every trained or loaded instance, predict with a region name the
\* encoder was not fit on and an otherwise valid dict is rejected by the
\* region check with a ValueError and returns no rows, whatever the horizon.
C12_UnknownRegion ==
    (forecaster.is_trained \/ ModelFitted(forecaster))
    => \A in \in PredictInputs :
          (/\ in[1].Estado \notin forecaster.encoder_estados.classes_
           /\ WellFormedIC(forecaster,
                  [in[1] EXCEPT !.Estado = CHOOSE e \in forecaster.encoder_estados.classes_ : TRUE]))
          => LET r == Predict(forecaster, in[1], in[2])
             IN  /\ ~r.ok /\ r.rows = <<>>
                 /\ r.step = "region" /\ r.cause = "ValueError"

C12_Witness ==
    /\ ret.op = "predict" /\ ~ret.ok /\ ret.rows = <<>>
    /\ ret.step = "region"
    /\ ret.ic.Estado \notin forecaster.encoder_estados.classes_
    /\ forecaster.is_trained /\ ModelFitted(forecaster)
    /\ \E p \in Paths :
          disk[p].exists /\ forecaster = LoadModel(disk[p]).forecaster

\* The raise sites inside the underlying model's predict.
ModelSteps == {"model_not_fit", "model_no_params"}

\* C13: predict with a horizon that is 0, negative or not an integer raises
\* and returns no rows without reaching the model; when the dict passes
\* validation the failure is the horizon check's ValueError.
C13_InvalidHorizon ==
    (ret.op = "predict" /\ ~ValidHorizon(ret.horizon))
    => /\ ~ret.ok /\ ret.rows = <<>> /\ ret.future_processed = <<>>
       /\ ret.step \notin ModelSteps
       /\ ("last_year" \in ret.ic.keys /\ FirstFailingCheck(forecaster, ret.ic) = "none")
          => (ret.step = "horizon" /\ ret.cause = "ValueError")

C13_Witness ==
    /\ ret.op = "predict" /\ ~ret.ok
    /\ ret.horizon = Horizon(0)
    /\ ModelFitted(forecaster) /\ forecaster.is_trained
    /\ WellFormedIC(forecaster, ret.ic)
    /\ ret.step = "horizon"

IncompleteInstances(self) ==
    {[self EXCEPT !.is_trained = TRUE, !.model.kind = "None"],
     [self EXCEPT !.is_trained = TRUE, !.preprocessor.kind = "None"],
     [self EXCEPT !.is_trained = TRUE, !.encoder_estados = NoEncoder]}

\* C15: save_model writes the artifact only from a trained instance holding
\* model, scaler and encoder; an untrained instance fails with RuntimeError
\* "not trained", an instance lacking one of the three fails with ValueError
\* "missing artifact", and in both cases no directory is made and every file
\* stays as it was.
C15_SaveOnlyComplete ==
    [][(ret'.op = "save_model")
       => /\ ret'.ok
             => /\ forecaster.is_trained
                /\ \A a \in {forecaster.model, forecaster.preprocessor,
                             forecaster.encoder_estados} : a.kind # "None"
                /\ disk'[ret'.path] = Artifact(forecaster)
          /\ ~forecaster.is_trained
             => /\ ~ret'.ok /\ ret'.step = "not_trained" /\ ret'.exc = "RuntimeError"
                /\ disk' = disk /\ ~ret'.mkdir
          /\ \A self \in IncompleteInstances(forecaster) :
                LET r == SaveModel(self, disk[ret'.path])
                IN  /\ ~r.ok /\ r.step = "missing_artifact" /\ r.exc = "ValueError"
                    /\ r.file = disk[ret'.path] /\ ~r.mkdir]_vars

C15_Witness ==
    /\ ret.op = "save_model" /\ ~ret.ok
    /\ ret.step = "not_trained"
    /\ ~forecaster.is_trained /\ ModelFitted(forecaster)
    /\ ~disk[ret.path].exists /\ ~ret.mkdir

\* C16: load_model of an artifact whose encoder is missing fails, of an
\* artifact whose scaler is missing or was never fitted fails, and a
\* load_model that returns gives an instance with is_trained true.
C16_LoadRejectsIncomplete ==
    (ret.op = "load_model" /\ disk[ret.path].exists)
    => /\ disk[ret.path].encoder_estados.kind = "None" => ~ret.ok
       /\ disk[ret.path].preprocessor.kind = "None" => ~ret.ok
       /\ ~disk[ret.path].preprocessor.fitted => ~ret.ok
       /\ ret.ok => forecaster.is_trained

\* The instance is as load_model returns it from the file at some path.
Loaded(self) ==
    \E p \in Paths :
        /\ disk[p].exists
        /\ LoadModel(disk[p]).ok
        /\ self = LoadModel(disk[p]).forecaster

\* C17: a train() call on an instance as load_model returned it is rejected
\* and leaves the scaler, the model and its regressors as they were, so
\* predict answers afterwards as it did before.
C17_LoadedInferenceOnly ==
    [][(Loaded(forecaster) /\ ret'.op = "train")
       => /\ ~ret'.ok
          /\ forecaster'.preprocessor = forecaster.preprocessor
          /\ forecaster'.model = forecaster.model
          /\ \A in \in FewPredictInputs :
                Predict(forecaster', in[1], in[2]) = Predict(forecaster, in[1], in[2])]_vars

\* C18: preprocess_data of a frame with all columns that holds a row with
\* farmland 0 and forest 0 raises the invalid-area error, whatever other rows
\* the frame holds.
C18_ZeroAreaRow ==
    (/\ ret.op = "preprocess_data"
     /\ RequiredCols \subseteq ret.df.columns
     /\ \E i \in 1..Len(ret.df.rows) :
           ret.df.rows[i].area_fazenda_ha = 0 /\ ret.df.rows[i].area_floresta_ha = 0)
    => (~ret.ok /\ ret.step = "invalid_area")

\* The region names of the data the driver was started on.
DataEstados == SeqToSet(UniqueEstados(driver.data.rows))

\* C19: the driver fits the encoder once, over all region names of the data,
\* before the loop; no later step changes it; every forecaster of the loop
\* holds it, and every artifact written in the run stores it, so each region
\* name has the same code in all of them.
C19_GlobalEncoder ==
    [][/\ driver.pc # "start" => driver'.estado_encoder = driver.estado_encoder
       /\ driver'.pc \in {"loop", "train", "save", "done"}
          => /\ driver'.fits = 1
             /\ driver'.estado_encoder = LabelEncoder(DataEstados')
       /\ driver'.pc \in {"train", "save"}
          => forecaster'.encoder_estados = driver'.estado_encoder
       /\ \A i \in 1..Len(driver'.written) :
             LET art == disk'[driver'.written[i]]
             IN  /\ art.exists
                 /\ art.encoder_estados = driver'.estado_encoder
                 /\ \A e \in DataEstados' :
                       EncoderCode(art.encoder_estados, e)
                       = EncoderCode(driver'.estado_encoder, e)]_vars

C19_Witness ==
    /\ driver.pc = "done"
    /\ Len(driver.written) = 2
    /\ driver.written[1] # driver.written[2]
    /\ disk[driver.written[1]].encoder_estados = disk[driver.written[2]].encoder_estados
    /\ Cardinality(disk[driver.written[1]].encoder_estados.classes_) = 2

\* C20: within one run of the driver no artifact path is written twice: two
\* distinct regions of the data never share a path.
C20_OnePathPerRegion ==
    \A i, j \in 1..Len(driver.written) :
        i # j => driver.written[i] # driver.written[j]

\* C21: a train, predict or save_model call on one region's forecaster
\* leaves every other region's forecaster (is_trained, scaler, model) and
\* every other region's artifact file as they were, and leaves the shared
\* encoder as it was; so each forecaster ends as if the regions had run one
\* after another.
C21_RegionsIndependent ==
    [][/\ pool'.estado_encoder = pool.estado_encoder
       /\ \A e \in PoolRegions :
             pool'.last.estado # e
             => /\ pool'.f[e] = pool.f[e]
                /\ disk'[OutputPath(Sigla(e))] = disk[OutputPath(Sigla(e))]]_vars

\* C22: a predict call, succeeding or failing, leaves the instance (scaler,
\* model with its regressors, encoder, is_trained) as it was, and asked again
\* with the same arguments it computes the same answer.
C22_PredictReadsOnly ==
    [][(ret'.op = "predict")
       => /\ forecaster' = forecaster
          /\ Predict(forecaster', ret'.ic, ret'.horizon)
             = Predict(forecaster, ret'.ic, ret'.horizon)
          /\ Predict(forecaster', ret'.ic, ret'.horizon).rows = ret'.rows]_vars

C22_Witness ==
    /\ ret.op = "predict" /\ ret.ok
    /\ forecaster.is_trained /\ forecaster.preprocessor.fitted
    /\ Len(ret.rows) = MaxHorizon

\* C23: in a forecast, before rounding, forest_1 = initial forest * (1 - rate_1),
\* forest_k = forest_(k-1) * (1 - rate_k), farmland_k = initial farmland +
\* (initial forest - forest_k), where rate_k is the rate the model predicts
\* for year k; the rows returned are these values rounded to 4 decimals.
C23_CompoundedForest ==
    (ret.op = "predict" /\ ret.ok)
    => /\ Len(ret.result) = ret.horizon.v
       /\ \A k \in 1..Len(ret.result) :
             LET row == ret.result[k]
                 before == IF k = 1 THEN FInt(ret.ic.area_floresta_ha)
                           ELSE ret.result[k - 1].area_floresta_projetada
             IN  /\ row.conversao_ha_prevista = Yhat(forecaster.model.params, k)
                 /\ row.area_floresta_projetada
                    = FMul(before, FSub(FInt(1), row.conversao_ha_prevista))
                 /\ row.area_fazenda_projetada
                    = FAdd(FInt(ret.ic.area_fazenda_ha),
                           FSub(FInt(ret.ic.area_floresta_ha), row.area_floresta_projetada))
                 /\ ret.rows[k].area_floresta_projetada = Round4(row.area_floresta_projetada)
                 /\ ret.rows[k].area_fazenda_projetada = Round4(row.area_fazenda_projetada)

C23_Witness ==
    /\ ret.op = "predict" /\ ret.ok
    /\ Len(ret.result) >= 2
    /\ ret.ic.area_floresta_ha > 0
    /\ ret.result[1].conversao_ha_prevista # ret.result[2].conversao_ha_prevista
    /\ ret.result[1].conversao_ha_prevista # FInt(ret.ic.y)
    /\ ret.result[2].area_floresta_projetada # ret.result[1].area_floresta_projetada

\* The raw rows of a frame that carry a key, by index, and the sum of a
\* column over a set of row indices.
RowsOfKey(rows, key) ==
    {i \in 1..Len(rows) : <<rows[i].Estado, rows[i].ds, rows[i].bioma>> = key}

RECURSIVE SumAt(_, _, _)
SumAt(rows, I, col) ==
    IF I = {} THEN 0
    ELSE LET i == CHOOSE x \in I : TRUE
         IN  rows[i][col] + SumAt(rows, I \ {i}, col)

\* C24: a preprocess_data call that returns gives exactly one row per
\* (region, timestamp, biome) key of the raw frame; the row's areas are the
\* scaled sums of the key's raw areas, its forest proportion that of the
\* sums, and its rate the rate of the key's first raw row, an infinite rate
\* counting as 0.
C24_OneRowPerKey ==
    (ret.op = "preprocess_data" /\ ret.ok)
    => LET raw == ret.df.rows
           keys == {<<raw[i].Estado, raw[i].ds, raw[i].bioma>> : i \in 1..Len(raw)}
           p == forecaster.preprocessor
       IN  /\ Len(ret.out) = Cardinality(keys)
           /\ \A key \in keys :
                 \E k \in 1..Len(ret.out) :
                    LET I == RowsOfKey(raw, key)
                        first == raw[CHOOSE i \in I : \A j \in I : i <= j]
                        fazenda == SumAt(raw, I, "area_fazenda_ha")
                        floresta == SumAt(raw, I, "area_floresta_ha")
                    IN  /\ <<ret.out[k].Estado, ret.out[k].ds, ret.out[k].bioma>> = key
                        /\ ret.out[k].area_fazenda_ha = ScaleValue(p, 1, FInt(fazenda))
                        /\ ret.out[k].area_floresta_ha = ScaleValue(p, 2, FInt(floresta))
                        /\ ret.out[k].prop_floresta
                           = ScaleValue(p, 3, Frac(floresta, fazenda + floresta))
                        /\ ret.out[k].y = (IF first.y.kind = "num" THEN first.y.v ELSE 0)

C24_Witness ==
    /\ ret.op = "preprocess_data" /\ ret.ok
    /\ Len(ret.df.rows) = 2 /\ Len(ret.out) = 1
    /\ ret.df.rows[1].y.kind = "inf"
    /\ ret.df.rows[2].y.kind = "num" /\ ret.df.rows[2].y.v # 0
    /\ ret.out[1].y = 0

\* The raw frame has every required column and each of its keys a positive
\* total area: the checks that precede the encoding pass.
ReachesEncoding(df) ==
    /\ RequiredCols \subseteq df.columns
    /\ \A i \in 1..Len(df.rows) :
          LET I == RowsOfKey(df.rows, <<df.rows[i].Estado, df.rows[i].ds, df.rows[i].bioma>>)
          IN  SumAt(df.rows, I, "area_fazenda_ha") + SumAt(df.rows, I, "area_floresta_ha") > 0

UnseenRegion(self, df) ==
    /\ self.encoder_estados.kind # "None"
    /\ \E i \in 1..Len(df.rows) : df.rows[i].Estado \notin self.encoder_estados.classes_

\* C25 as stated: every preprocess_data call on an instance without an
\* encoder fails, every call whose raw frame holds a region outside the
\* encoder's names fails with the unknown-region ValueError, both without
\* touching the scaler, and no call changes the encoder.
C25_EncoderOnly ==
    [][(ret'.op = "preprocess_data")
       => /\ forecaster'.encoder_estados = forecaster.encoder_estados
          /\ (forecaster.encoder_estados.kind = "None")
             => ~ret'.ok /\ forecaster'.preprocessor = forecaster.preprocessor
          /\ UnseenRegion(forecaster, ret'.df)
             => /\ ~ret'.ok /\ forecaster'.preprocessor = forecaster.preprocessor
                /\ ret'.exc = "ValueError" /\ ret'.step = "unknown_region"]_vars

\* C25, amended: the same, the unknown-region ValueError (and the missing
\* encoder's RuntimeError) being the failure of the calls whose frame passes
\* the column and total-area checks that come first; a frame that fails one
\* of those fails with that check's error, the scaler untouched all the same.
C25_EncoderOnlyAfterChecks ==
    [][(ret'.op = "preprocess_data")
       => /\ forecaster'.encoder_estados = forecaster.encoder_estados
          /\ (forecaster.encoder_estados.kind = "None")
             => /\ ~ret'.ok /\ forecaster'.preprocessor = forecaster.preprocessor
                /\ ReachesEncoding(ret'.df)
                   => ret'.exc = "RuntimeError" /\ ret'.step = "encoder_none"
          /\ UnseenRegion(forecaster, ret'.df)
             => /\ ~ret'.ok /\ forecaster'.preprocessor = forecaster.preprocessor
                /\ IF ReachesEncoding(ret'.df)
                   THEN ret'.exc = "ValueError" /\ ret'.step = "unknown_region"
                   ELSE ret'.step \in {"y_missing", "missing_columns", "invalid_area"}]_vars

C25_Witness ==
    /\ ret.op = "preprocess_data" /\ ~ret.ok
    /\ ret.step = "unknown_region"
    /\ Len(ret.df.rows) = 2
    /\ ret.df.rows[1].Estado \in forecaster.encoder_estados.classes_
    /\ ret.df.rows[2].Estado \notin forecaster.encoder_estados.classes_
    /\ ~forecaster.preprocessor.fitted

\* C26: over any sequence of train calls, succeeding or failing, the columns
\* registered on the underlying model are among the four covariate columns,
\* a call never removes one and never registers a column a second time: a
\* call on a model that holds all four leaves the registrations as they are
\* and no call fails inside add_regressor, which refuses any registration
\* on a model that has been fit.
C26_RegisterOnce ==
    [][(ret'.op = "train")
       => /\ forecaster'.model.extra_regressors \subseteq SeqToSet(FeatureColumns)
          /\ forecaster.model.extra_regressors \subseteq forecaster'.model.extra_regressors
          /\ (forecaster.model.extra_regressors = SeqToSet(FeatureColumns))
             => forecaster'.model.extra_regressors = forecaster.model.extra_regressors
          /\ ret'.step # "add_regressor"]_vars

C26_Witness ==
    /\ ret.op = "train" /\ ~ret.ok /\ ret.step = "fit_once"
    /\ forecaster.model.history
    /\ forecaster.model.extra_regressors = SeqToSet(FeatureColumns)
    /\ Cardinality(forecaster.model.extra_regressors) = 4

\* C27: in every reachable state an instance with is_trained set holds a
\* fitted scaler, a fitted model and an encoder, and so does every artifact
\* file save_model has written.
C27_TrainedIsComplete ==
    /\ forecaster.is_trained
       => /\ forecaster.preprocessor.kind # "None" /\ forecaster.preprocessor.fitted
          /\ forecaster.model.kind # "None" /\ forecaster.model.history
          /\ ModelFitted(forecaster)
          /\ forecaster.encoder_estados.kind # "None"
    /\ \A p \in Paths :
          disk[p].exists
          => /\ disk[p].preprocessor.kind # "None" /\ disk[p].preprocessor.fitted
             /\ disk[p].model.kind # "None" /\ disk[p].model.history
             /\ disk[p].model.params.fitted
             /\ disk[p].encoder_estados.kind # "None"

C27_Witness ==
    /\ ret.op = "predict" /\ ret.ok
    /\ forecaster.is_trained
    /\ disk[SamplePath].exists
    /\ forecaster = LoadModel(disk[SamplePath]).forecaster
    /\ forecaster.preprocessor.fitted /\ ModelFitted(forecaster)

\* C28: in every successful predict call the region code of each row of the
\* scaled future frame is the scaled code the instance's encoder gives to
\* the region name of the initial conditions, whatever estado_code the
\* caller supplied.
C28_EncoderRegionCode ==
    (ret.op = "predict" /\ ret.ok)
    => \A k \in 1..Len(ret.future_processed) :
          ret.future_processed[k][4]
          = ScaleValue(forecaster.preprocessor, 4,
                       FInt(EncoderCode(forecaster.encoder_estados, ret.ic.Estado)))

\* The file at path p holds the artifact of a forecaster trained on the rows
\* of region e alone: its scaler's mean of estado_code is the code of e.
ArtifactOf(p, e) ==
    /\ disk[p].exists
    /\ disk[p].preprocessor.fitted
    /\ disk[p].preprocessor.mean_[4] = FInt(EncoderCode(driver.estado_encoder, e))

\* C29: the driver takes the regions of the data one at a time in their
\* order; it returns 0 only when every region was trained and saved; when a
\* region fails it returns 1, the artifacts of the regions before it remain
\* as written, and nothing was written for that region or a later one (a
\* file at such a region's path is one an earlier region wrote).
C29_StopAtFirstFailure ==
    LET estados == UniqueEstados(driver.data.rows)
        done == Len(driver.written)
    IN  /\ done <= Len(estados)
        /\ \A i \in 1..done : driver.written[i] = OutputPath(Sigla(estados[i]))
        /\ driver.pc \in {"loop", "train", "save"}
           => /\ Len(driver.todo) = Len(estados) - done
              /\ \A i \in 1..Len(driver.todo) : driver.todo[i] = estados[done + i]
        /\ driver.exit = 0
           => /\ driver.pc = "done"
              /\ done = Len(estados)
              /\ \A i \in 1..done : disk[driver.written[i]].exists
        /\ driver.pc = "failed"
           => /\ driver.exit = 1
              /\ \A i \in 1..done : ArtifactOf(driver.written[i], estados[i])
              /\ \A i \in (done + 1)..Len(estados) :
                    LET p == OutputPath(Sigla(estados[i]))
                    IN  disk[p].exists => \E j \in 1..done : driver.written[j] = p

\* Every predicted rate of the forecast lies in [0, 1].
RatesInUnitInterval(rows) ==
    \A k \in 1..Len(rows) :
        /\ FLeq(FInt(0), rows[k].conversao_ha_prevista)
        /\ FLeq(rows[k].conversao_ha_prevista, FInt(1))

\* Forest never grows and stays within [0, forest]; farmland never shrinks
\* and stays within [farmland, farmland + forest].
WithinBounds(rows, fazenda, floresta) ==
    \A k \in 1..Len(rows) :
        /\ FLeq(FInt(0), rows[k].area_floresta_projetada)
        /\ FLeq(rows[k].area_floresta_projetada, FInt(floresta))
        /\ FLeq(FInt(fazenda), rows[k].area_fazenda_projetada)
        /\ FLeq(rows[k].area_fazenda_projetada, FInt(fazenda + floresta))
        /\ k > 1 => /\ FLeq(rows[k].area_floresta_projetada,
                            rows[k - 1].area_floresta_projetada)
                    /\ FLeq(rows[k - 1].area_fazenda_projetada,
                            rows[k].area_fazenda_projetada)

\* C30: in a forecast whose predicted rates all lie in [0, 1], from initial
\* areas that are not negative, the projected forest is non-increasing over
\* the years and within [0, initial forest], and the projected farmland is
\* non-decreasing and within [initial farmland, initial farmland + initial
\* forest]; before rounding and in the rows returned.
C30_MonotoneWithinBounds ==
    (/\ ret.op = "predict" /\ ret.ok
     /\ RatesInUnitInterval(ret.result)
     /\ ret.ic.area_fazenda_ha >= 0 /\ ret.ic.area_floresta_ha >= 0)
    => /\ WithinBounds(ret.result, ret.ic.area_fazenda_ha, ret.ic.area_floresta_ha)
       /\ WithinBounds(ret.rows, ret.ic.area_fazenda_ha, ret.ic.area_floresta_ha)

C30_Witness ==
    /\ ret.op = "predict" /\ ret.ok
    /\ Len(ret.result) = 2
    /\ RatesInUnitInterval(ret.result)
    /\ ret.result[1].conversao_ha_prevista # ret.result[2].conversao_ha_prevista
    /\ ret.ic.area_floresta_ha > 0
    /\ FLess(ret.result[2].area_floresta_projetada, ret.result[1].area_floresta_projetada)
    /\ FLess(ret.result[1].area_floresta_projetada, FInt(ret.ic.area_floresta_ha))
    /\ FLess(ret.result[1].area_fazenda_projetada, ret.result[2].area_fazenda_projetada)

====
